---- MODULE Spec2Model ----
(***************************************************************************)
(* Model of streamlit_app.py: the tournament page of the tennis-club app.  *)
(* One Streamlit session: every user interaction re-runs the script, and   *)
(* st.experimental_rerun() stops the run and schedules another one.        *)
(* Player names are opaque (the code only compares them), so they are      *)
(* modelled as the naturals 1..MaxPlayers.  Keys of the dictionaries       *)
(* "rounds" and "winners" are str(int) in the code; str/int round-trips    *)
(* exactly on these keys, so the keys are modelled as the integers.        *)
(***************************************************************************)
EXTENDS Integers, Sequences, FiniteSets, TLC

\* ---- bounds of the model ----
MaxPlayers == 6      \* longest roster entered in the setup step
MaxHistory == 2      \* settlements appended to the history file
MaxWinners == 8      \* longest winners list of one round (odd rounds grow it on every run)
MaxExp == 6          \* ladder look-ups use bracket sizes 2^1 .. 2^MaxExp
MaxLookups == 2      \* ladder look-ups kept side by side
MaxRounds == 3       \* knockout runs use rosters of 2^1 .. 2^MaxRounds players

VARIABLES
    page,                   \* st.session_state.page
    tournament_step,        \* st.session_state.tournament_step
    bracket_size,           \* tournament_data["bracket_size"]   (0 when absent)
    initial_players,        \* tournament_data["initial_players"]
    rounds,                 \* tournament_data["rounds"]: round-size key -> player list
    matches,                \* tournament_data["matches"]
    byes,                   \* tournament_data["byes"]
    current_round_players,  \* tournament_data["current_round_players"]
    winners,                \* tournament_data["winners"]: round-size key -> winner list
    rankings,               \* contents of RANKINGS_FILE: player -> points
    history,                \* contents of HISTORY_FILE: sequence of tournament records
    rerun,                  \* st.experimental_rerun() was raised: the script runs again next
    buttons,                \* keys of the result buttons drawn by the last script run
    lookups,                \* ladder look-ups made so far (specification LadderSpec only)
    settlers                \* sessions inside update_rankings_and_history (ConcurrentSpec only)

vars == <<page, tournament_step, bracket_size, initial_players, rounds, matches, byes,
          current_round_players, winners, rankings, history, rerun, buttons, lookups,
          settlers>>

dataVars == <<bracket_size, initial_players, rounds, matches, byes,
              current_round_players, winners>>

storeVars == <<rankings, history>>

auxVars == <<lookups, settlers>>

\* ---- helpers ----
Range(s) == {s[i] : i \in DOMAIN s}

EmptyMap == [k \in {} |-> <<>>]

\* dict.get(k, []) on a dictionary of lists
Get(m, k) == IF k \in DOMAIN m THEN m[k] ELSE <<>>

\* m[k] = v on a dictionary
Put(m, k, v) == [x \in (DOMAIN m) \cup {k} |-> IF x = k THEN v ELSE m[x]]

\* ---- bracket construction ----
RECURSIVE CeilLog2From(_, _)
CeilLog2From(n, k) == IF 2^k >= n THEN k ELSE CeilLog2From(n, k + 1)

\* math.ceil(math.log2(n)), exact for the roster sizes of the model
CeilLog2(n) == CeilLog2From(n, 0)

\* variant: the smallest power of two strictly greater than n
NextPowerAbove(n) == IF n = 0 THEN 1 ELSE 2^CeilLog2(n + 1)

get_next_power_of_two(n) == IF n = 0 THEN 1 ELSE 2^CeilLog2(n)

\* the matches of the while loop head < tail: rest[head] against rest[tail]
SeededMatches(rest) ==
    [i \in 1..(Len(rest) \div 2) |-> <<rest[i], rest[Len(rest) + 1 - i]>>]

\* variant: the bye slice takes one seed too many (players[:num_byes + 1])
BracketWithExtraBye(players) ==
    LET num_players == Len(players)
        size == get_next_power_of_two(num_players)
        num_byes == size - num_players
        players_in_first_round == SubSeq(players, num_byes + 1, num_players)
    IN  [matches |-> SeededMatches(players_in_first_round),
         byes |-> SubSeq(players, 1, num_byes + 1),
         bracket_size |-> size]

create_seeded_bracket(players) ==
    LET num_players == Len(players)
        size == get_next_power_of_two(num_players)
        num_byes == size - num_players
        players_in_first_round == SubSeq(players, num_byes + 1, num_players)
    IN  [matches |-> SeededMatches(players_in_first_round),
         byes |-> SubSeq(players, 1, num_byes),
         bracket_size |-> size]

\* [p for match in matches for p in match]
RECURSIVE FlattenMatches(_)
FlattenMatches(ms) ==
    IF ms = <<>> THEN <<>> ELSE <<ms[1][1], ms[1][2]>> \o FlattenMatches(Tail(ms))


\* ---- points ladder ----
\* the tier keys in the order every ladder lists them
TierKeys == <<"winner", "finalist", "semifinalist", "quarterfinalist",
              "round_of_16", "round_of_32">>

\* one ladder: the first Len(values) tier keys with their points
Ladder(values) ==
    [t \in {TierKeys[i] : i \in 1..Len(values)} |->
        values[CHOOSE i \in 1..Len(values) : TierKeys[i] = t]]

\* variant: the 16-draw ladder with the semifinalist and quarterfinalist values swapped
LadderSwapped16 ==
    (4 :> Ladder(<<100, 60, 30>>))
    @@ (8 :> Ladder(<<200, 120, 70, 30>>))
    @@ (16 :> Ladder(<<400, 240, 80, 140, 40>>))
    @@ (32 :> Ladder(<<800, 480, 280, 160, 80, 40>>))

POINTS_STRUCTURE ==
    (4 :> Ladder(<<100, 60, 30>>))
    @@ (8 :> Ladder(<<200, 120, 70, 30>>))
    @@ (16 :> Ladder(<<400, 240, 140, 80, 40>>))
    @@ (32 :> Ladder(<<800, 480, 280, 160, 80, 40>>))

\* round size -> tier key (the display names of the code map one to one onto the keys;
\* the record keeps the key, and "participation" for the default outcome)
round_outcomes ==
    [s \in {1, 2, 4, 8, 16, 32} |->
        CASE s = 1 -> "winner" [] s = 2 -> "finalist" [] s = 4 -> "semifinalist"
          [] s = 8 -> "quarterfinalist" [] s = 16 -> "round_of_16" [] OTHER -> "round_of_32"]

Abs(x) == IF x < 0 THEN -x ELSE x

SetMin(S) == CHOOSE x \in S : \A y \in S : x <= y

\* variant: the distance to the bracket size is taken without abs()
PointsKeyNoAbs(size) ==
    SetMin({k \in DOMAIN POINTS_STRUCTURE :
               \A j \in DOMAIN POINTS_STRUCTURE : k - size <= j - size})

\* min(POINTS_STRUCTURE.keys(), key=lambda k: abs(k - bracket_size)): the first key of
\* the dictionary (keys are inserted in ascending order) with the least distance
points_key(size) ==
    SetMin({k \in DOMAIN POINTS_STRUCTURE :
               \A j \in DOMAIN POINTS_STRUCTURE : Abs(k - size) <= Abs(j - size)})

\* points_map.get(key, 0) for the ladder chosen for this bracket size
PointsFor(size, tier) ==
    LET points_map == POINTS_STRUCTURE[points_key(size)]
    IN  IF tier \in DOMAIN points_map THEN points_map[tier] ELSE 0

\* the points of the outcome loop: 0 unless a round list holds the player, else the
\* ladder value of the tier
PointsEarned(size, outcome) ==
    IF outcome = "participation" THEN 0 ELSE PointsFor(size, outcome)

\* ---- settlement ----
\* the wins loop: keys other than the bracket size, smaller than it, that list the player
WinsOf(player, rs, size) ==
    Cardinality({k \in DOMAIN rs : k # size /\ player \in Range(rs[k]) /\ k < size})

SetMax(S) == CHOOSE x \in S : \A y \in S : x >= y

\* variant: the outcome loop runs over the round sizes in descending order
OutcomeOfLargest(player, rs) ==
    LET reached == {s \in {1, 2, 4, 8, 16, 32} : player \in Range(Get(rs, s))}
    IN  IF reached = {} THEN "participation"
        ELSE LET s == SetMax(reached)
             IN  CASE s = 1 -> "winner" [] s = 2 -> "finalist" [] s = 4 -> "semifinalist"
                   [] s = 8 -> "quarterfinalist" [] s = 16 -> "round_of_16"
                   [] OTHER -> "round_of_32"

\* the outcome loop: first round size, in ascending order, whose list holds the player
OutcomeOf(player, rs) ==
    LET reached == {s \in DOMAIN round_outcomes : player \in Range(Get(rs, s))}
    IN  IF reached = {} THEN "participation" ELSE round_outcomes[SetMin(reached)]

ParticipantEntry(player, rs, size) ==
    LET outcome == OutcomeOf(player, rs)
    IN  [name |-> player,
         outcome |-> outcome,
         wins |-> WinsOf(player, rs, size),
         points_earned |-> PointsEarned(size, outcome)]

\* rankings[player] += points, one roster entry after the other
RECURSIVE CreditAll(_, _, _, _)
CreditAll(rk, players, rs, size) ==
    IF players = <<>> THEN rk
    ELSE LET p == Head(players)
             old == IF p \in DOMAIN rk THEN rk[p] ELSE 0
             new == old + ParticipantEntry(p, rs, size).points_earned
         IN  CreditAll(Put(rk, p, new), Tail(players), rs, size)

\* the record appended to the history (its id and name are the wall-clock minute and
\* the bracket size; the clock is outside the model)
TournamentRecord(players, rs, size) ==
    [draw_size |-> size,
     participants |-> [i \in 1..Len(players) |-> ParticipantEntry(players[i], rs, size)]]

\* update_rankings_and_history(data): load both files, credit, append, save both files
\* (the history grows on every call: the model stops at MaxHistory records)
update_rankings_and_history ==
    /\ Len(history) < MaxHistory
    /\ rankings' = CreditAll(rankings, initial_players, rounds, bracket_size)
    /\ history' = Append(history, TournamentRecord(initial_players, rounds, bracket_size))

\* ---- the script run of page_tournament ----
NoClick == <<>>

\* tournament_data = {}
ResetData ==
    /\ bracket_size' = 0
    /\ initial_players' = <<>>
    /\ rounds' = EmptyMap
    /\ matches' = <<>>
    /\ byes' = <<>>
    /\ current_round_players' = <<>>
    /\ winners' = EmptyMap

\* the pairs (players[i], players[i+1]), i = 0, 2, ..., that have both players
PairsOf(players) ==
    [i \in 1..(Len(players) \div 2) |-> <<players[2 * i - 1], players[2 * i]>>]

\* "p1 not in winners and p2 not in winners"
Undecided(pair, ws) == pair[1] \notin Range(ws) /\ pair[2] \notin Range(ws)

\* matches_to_play: the pairs that are still undecided, in list order
RECURSIVE MatchesToPlay(_, _)
MatchesToPlay(pairs, ws) ==
    IF pairs = <<>> THEN <<>>
    ELSE (IF Undecided(Head(pairs), ws) THEN <<Head(pairs)>> ELSE <<>>)
         \o MatchesToPlay(Tail(pairs), ws)

\* the keys of the buttons of matches_to_play in the order the script creates them:
\* win_{p1}_{p2} (p1 wins) then win_{p2}_{p1} (p2 wins); the winner is the key's head
RECURSIVE ButtonKeys(_)
ButtonKeys(mtp) ==
    IF mtp = <<>> THEN <<>>
    ELSE <<<<mtp[1][1], mtp[1][2]>>, <<mtp[1][2], mtp[1][1]>>>> \o ButtonKeys(Tail(mtp))

\* Streamlit refuses a second widget with a key already used in the run
\* (DuplicateWidgetID): the index of the first such button, 0 if there is none
FirstDuplicate(keys) ==
    LET dups == {j \in 1..Len(keys) : \E i \in 1..(j - 1) : keys[i] = keys[j]}
    IN  IF dups = {} THEN 0 ELSE SetMin(dups)

\* the buttons the run gets to draw
Drawn(keys) ==
    IF FirstDuplicate(keys) = 0 THEN keys ELSE SubSeq(keys, 1, FirstDuplicate(keys) - 1)

\* winners of the round after the loop over the pairs: an odd player out is appended
AfterBye(players, ws) ==
    IF Len(players) % 2 = 1 THEN Append(ws, players[Len(players)]) ELSE ws

\* "if len(winners) == round_num // 2"
RoundComplete(ws, round_num) == Len(ws) = round_num \div 2

\* variant: the next round is stored under the size of the round just played
KeyOfRoundPlayed(ws, round_num) == round_num

\* the key of the next round in data["rounds"]: str(len(winners))
NextRoundKey(ws, round_num) == Len(ws)

\* step "setup" without a click on the start button
SetupRun ==
    /\ UNCHANGED <<tournament_step, dataVars, storeVars>>
    /\ rerun' = FALSE
    /\ buttons' = {}

\* step "playing"; click is the key of the result button the user pressed, or NoClick
PlayingRun(click) ==
    LET players_in_round == current_round_players
        round_num == Len(players_in_round)
        stored == Get(winners, round_num)
        mtp == MatchesToPlay(PairsOf(players_in_round), stored)
        ws == AfterBye(players_in_round, stored)
        data_winners == IF round_num % 2 = 1 THEN Put(winners, round_num, ws) ELSE winners
        keys == ButtonKeys(mtp)
        drawn == Drawn(keys)
    IN  IF round_num <= 1
        THEN /\ tournament_step' = "finished"
             /\ rerun' = TRUE
             /\ buttons' = {}
             /\ UNCHANGED <<dataVars, storeVars>>
        ELSE \* the list of an odd round grows on every run: the model stops at MaxWinners
             /\ Len(ws) + (IF click \in Range(drawn) THEN 1 ELSE 0) <= MaxWinners
             /\ UNCHANGED <<tournament_step, bracket_size, initial_players, matches, byes,
                            storeVars>>
             /\ IF click \in Range(drawn)
                THEN \* winners.append(p); data["winners"][round] = winners; rerun
                     /\ winners' = Put(winners, round_num, Append(ws, click[1]))
                     /\ rerun' = TRUE
                     /\ buttons' = {}
                     /\ UNCHANGED <<rounds, current_round_players>>
                ELSE IF FirstDuplicate(keys) # 0
                THEN \* the run dies on the duplicate key, after the loop over the pairs
                     /\ winners' = data_winners
                     /\ rerun' = FALSE
                     /\ buttons' = Range(drawn)
                     /\ UNCHANGED <<rounds, current_round_players>>
                ELSE IF RoundComplete(ws, round_num)
                THEN /\ rounds' = Put(rounds, NextRoundKey(ws, round_num), ws)
                     /\ current_round_players' = ws
                     /\ winners' = data_winners
                     /\ rerun' = TRUE
                     /\ buttons' = {}
                ELSE /\ winners' = data_winners
                     /\ rerun' = FALSE
                     /\ buttons' = Range(drawn)
                     /\ UNCHANGED <<rounds, current_round_players>>

\* step "finished": settle, then the return-home button
FinishedRun(home) ==
    /\ update_rankings_and_history
    /\ buttons' = {}
    /\ IF home
       THEN /\ tournament_step' = "setup"
            /\ ResetData
            /\ rerun' = TRUE
       ELSE /\ UNCHANGED <<tournament_step, dataVars>>
            /\ rerun' = FALSE

\* page_tournament() with no button pressed
TournamentRun ==
    CASE tournament_step = "setup" -> SetupRun
      [] tournament_step = "playing" -> PlayingRun(NoClick)
      [] OTHER -> FinishedRun(FALSE)

\* the other pages only read the files
OtherPageRun ==
    /\ UNCHANGED <<tournament_step, dataVars, storeVars>>
    /\ rerun' = FALSE
    /\ buttons' = {}

\* ---- the session ----
Names == 1..MaxPlayers

\* rosters in seed order: n different names, or the same with the last seed's name
\* replaced by a name already entered
SeedRoster(n) == [i \in 1..n |-> i]

Rosters ==
    {SeedRoster(n) : n \in 2..MaxPlayers}
    \cup UNION {{[SeedRoster(n) EXCEPT ![n] = d] : d \in 1..(n - 1)} : n \in 2..MaxPlayers}

Init ==
    /\ page = "home"
    /\ tournament_step = "setup"
    /\ bracket_size = 0
    /\ initial_players = <<>>
    /\ rounds = EmptyMap
    /\ matches = <<>>
    /\ byes = <<>>
    /\ current_round_players = <<>>
    /\ winners = EmptyMap
    /\ rankings = EmptyMap
    /\ history = <<>>
    /\ rerun = FALSE
    /\ buttons = {}
    /\ lookups = <<>>
    /\ settlers = <<>>

\* a sidebar navigation button: the callback sets the page, then the script runs
SetPage(p) ==
    /\ ~rerun
    /\ page' = p
    /\ IF p = "tournament" THEN TournamentRun ELSE OtherPageRun
    /\ UNCHANGED auxVars

\* the run scheduled by st.experimental_rerun()
Rerun ==
    /\ rerun
    /\ IF page = "tournament" THEN TournamentRun ELSE OtherPageRun
    /\ UNCHANGED <<page, auxVars>>

\* the start button of the setup step; players is the list the setup step parses from
\* the text area: the non-empty names, in the order entered
Start(players) ==
    /\ ~rerun
    /\ page = "tournament"
    /\ tournament_step = "setup"
    /\ Len(players) >= 2
    /\ Len(history) + 2 <= MaxHistory   \* room to settle this tournament twice
    /\ LET b == create_seeded_bracket(players)
       IN  /\ bracket_size' = b.bracket_size
           /\ initial_players' = players
           /\ rounds' = Put(EmptyMap, b.bracket_size, players)
           /\ matches' = b.matches
           /\ byes' = b.byes
           /\ current_round_players' = b.byes \o FlattenMatches(b.matches)
    /\ winners' = EmptyMap
    /\ tournament_step' = "playing"
    /\ rerun' = TRUE
    /\ buttons' = {}
    /\ UNCHANGED <<page, storeVars, auxVars>>

\* a result button of the playing step
ClickWin(key) ==
    /\ ~rerun
    /\ page = "tournament"
    /\ tournament_step = "playing"
    /\ key \in buttons
    /\ PlayingRun(key)
    /\ UNCHANGED <<page, auxVars>>

\* the sidebar button that cancels the tournament
Cancel ==
    /\ ~rerun
    /\ page = "tournament"
    /\ tournament_step # "setup"
    /\ tournament_step' = "setup"
    /\ ResetData
    /\ rerun' = TRUE
    /\ buttons' = {}
    /\ UNCHANGED <<page, storeVars, auxVars>>

\* the return-home button of the finished step
ReturnHome ==
    /\ ~rerun
    /\ page = "tournament"
    /\ tournament_step = "finished"
    /\ FinishedRun(TRUE)
    /\ page' = "home"
    /\ UNCHANGED auxVars

Next ==
    \/ \E p \in {"home", "tournament"} : SetPage(p)
    \/ Rerun
    \/ \E players \in Rosters : Start(players)
    \/ \E key \in Names \X Names : ClickWin(key)
    \/ Cancel
    \/ ReturnHome

Spec == Init /\ [][Next]_vars

\* ---- a caller who only opens the page, starts a tournament and records winners ----
OpenTournament ==
    /\ page = "home"
    /\ SetPage("tournament")

LiveNext ==
    \/ OpenTournament
    \/ Rerun
    \/ \E players \in Rosters : Start(players)
    \/ \E key \in Names \X Names : ClickWin(key)

\* the scheduled rerun always runs; the caller keeps pressing a result button while
\* one is drawn
LiveSpec ==
    /\ Init
    /\ [][LiveNext]_vars
    /\ WF_vars(Rerun)
    /\ WF_vars(\E key \in Names \X Names : ClickWin(key))

\* ---- knockout runs: 2^k different players, results recorded from the top match down ----
StartKnockout == \E k \in 1..MaxRounds : Start(SeedRoster(2^k))

ClickTopMatch ==
    \E key \in buttons :
        /\ LET mtp == MatchesToPlay(PairsOf(current_round_players),
                                    Get(winners, Len(current_round_players)))
           IN  mtp # <<>> /\ key \in {<<mtp[1][1], mtp[1][2]>>, <<mtp[1][2], mtp[1][1]>>}
        /\ ClickWin(key)

KnockoutNext ==
    \/ OpenTournament
    \/ Rerun
    \/ StartKnockout
    \/ ClickTopMatch

KnockoutSpec == Init /\ [][KnockoutNext]_vars

\* ---- the ladder alone: points for a bracket size and an outcome ----
BracketSizes == {2^k : k \in 1..MaxExp}

Outcomes == Range(round_outcomes) \cup {"participation"}

Lookup(size, outcome) ==
    /\ Len(lookups) < MaxLookups
    /\ lookups' = Append(lookups, [draw_size |-> size,
                                   outcome |-> outcome,
                                   points_earned |-> PointsEarned(size, outcome)])
    /\ UNCHANGED <<page, tournament_step, dataVars, storeVars, rerun, buttons, settlers>>

LadderNext == \E size \in BracketSizes, outcome \in Outcomes : Lookup(size, outcome)

LadderSpec == Init /\ [][LadderNext]_vars

\* ---- two sessions inside update_rankings_and_history at the same time ----
\* (every browser session runs the script in a thread of its own; RANKINGS_FILE and
\* HISTORY_FILE are shared, and the function takes no lock)
Sessions == {1, 2}

\* tournament_data of a finished tournament of two players
FinishedData(players, champion) ==
    [initial_players |-> players,
     bracket_size |-> 2,
     rounds |-> Put(Put(EmptyMap, 2, players), 1, <<champion>>)]

TwoPlayerFinals ==
    {FinishedData(<<r[1], r[2]>>, r[w]) :
        r \in {q \in Names \X Names : q[1] # q[2]}, w \in {1, 2}}

\* a session about to call update_rankings_and_history(data)
Entering(data) ==
    [pc |-> "load_rankings", data |-> data, rankings |-> EmptyMap, history |-> <<>>]

ConcurrentInit ==
    /\ page = "tournament"
    /\ tournament_step = "finished"
    /\ bracket_size = 0
    /\ initial_players = <<>>
    /\ rounds = EmptyMap
    /\ matches = <<>>
    /\ byes = <<>>
    /\ current_round_players = <<>>
    /\ winners = EmptyMap
    /\ rankings = EmptyMap
    /\ history = <<>>
    /\ rerun = FALSE
    /\ buttons = {}
    /\ lookups = <<>>
    /\ \E d1 \in TwoPlayerFinals, d2 \in TwoPlayerFinals :
          settlers = <<Entering(d1), Entering(d2)>>

sessionVars == <<page, tournament_step, dataVars, rerun, buttons, lookups>>

\* rankings = load_data(RANKINGS_FILE, {})
LoadRankings(s) ==
    /\ settlers[s].pc = "load_rankings"
    /\ settlers' = [settlers EXCEPT ![s].rankings = rankings, ![s].pc = "load_history"]
    /\ UNCHANGED <<sessionVars, storeVars>>

\* history = load_data(HISTORY_FILE, [])
LoadHistory(s) ==
    /\ settlers[s].pc = "load_history"
    /\ settlers' = [settlers EXCEPT ![s].history = history, ![s].pc = "save_history"]
    /\ UNCHANGED <<sessionVars, storeVars>>

\* history.append(tournament_record); save_data(history, HISTORY_FILE)
SaveHistory(s) ==
    LET data == settlers[s].data
    IN  /\ settlers[s].pc = "save_history"
        /\ history' = Append(settlers[s].history,
                             TournamentRecord(data.initial_players, data.rounds,
                                              data.bracket_size))
        /\ settlers' = [settlers EXCEPT ![s].pc = "save_rankings"]
        /\ UNCHANGED <<sessionVars, rankings>>

\* save_data(rankings, RANKINGS_FILE), the loaded ranking with the points credited
SaveRankings(s) ==
    LET data == settlers[s].data
    IN  /\ settlers[s].pc = "save_rankings"
        /\ rankings' = CreditAll(settlers[s].rankings, data.initial_players, data.rounds,
                                 data.bracket_size)
        /\ settlers' = [settlers EXCEPT ![s].pc = "done"]
        /\ UNCHANGED <<sessionVars, history>>

ConcurrentNext ==
    \E s \in Sessions :
        \/ LoadRankings(s)
        \/ LoadHistory(s)
        \/ SaveHistory(s)
        \/ SaveRankings(s)

ConcurrentSpec == ConcurrentInit /\ [][ConcurrentNext]_vars

\* ---- properties ----
IsDistinct(s) == \A i, j \in DOMAIN s : i # j => s[i] # s[j]

\* the winners recorded for the round being played
RoundWinners == Get(winners, Len(current_round_players))

CurrentPairs == PairsOf(current_round_players)

\* a run of the playing step wrote the next round's player list
RoundAdvances ==
    /\ tournament_step = "playing"
    /\ tournament_step' = "playing"
    /\ current_round_players' # current_round_players

\* C1: once a finished tournament has been settled (the finished page has been drawn),
\* no further run changes the stored ranking or the stored history: a second
\* settlement of the same tournament credits nobody and appends no record.
C1_SettledOnce ==
    [][(tournament_step = "finished" /\ ~rerun /\ IsDistinct(initial_players))
          => UNCHANGED storeVars]_vars

\* C2: for a roster of different players, whenever a round of size S > 1 completes,
\* the next round's list has exactly S/2 players, each of them a player of round S,
\* and none of them twice.
C2_RoundAdvancement ==
    [][(RoundAdvances /\ IsDistinct(initial_players))
          => /\ 2 * Len(current_round_players') = Len(current_round_players)
             /\ Range(current_round_players') \subseteq Range(current_round_players)
             /\ IsDistinct(current_round_players')]_vars

\* C3: the two players of one match of the current round are never both recorded
\* as winners of that round.
C3_WriteOnceWinner ==
    tournament_step = "playing" =>
        \A i \in DOMAIN CurrentPairs :
            CurrentPairs[i][1] # CurrentPairs[i][2] =>
                ~(CurrentPairs[i][1] \in Range(RoundWinners)
                  /\ CurrentPairs[i][2] \in Range(RoundWinners))

\* C4 as stated: len(byes) + 2 * len(matches) equals bracket_size.
C4_ByesPlusMatches ==
    tournament_step # "setup" => Len(byes) + 2 * Len(matches) = bracket_size

\* C4 amended: every bye fills a pair of bracket slots, so
\* 2 * len(byes) + 2 * len(matches) equals bracket_size; the sum of the claim,
\* len(byes) + 2 * len(matches), is the number of players.
C4_BracketFilled ==
    tournament_step # "setup" =>
        /\ 2 * Len(byes) + 2 * Len(matches) = bracket_size
        /\ Len(byes) + 2 * Len(matches) = Len(initial_players)

C4_Witness ==
    /\ tournament_step = "playing"
    /\ Len(initial_players) = 5
    /\ Len(byes) = 3
    /\ Len(matches) = 1
    /\ bracket_size = 8

IsPowerOfTwo(n) == \E k \in 0..n : n = 2^k

\* C5: for a roster of N >= 2 different players the bracket built at the start has
\* bracket_size the smallest power of two >= N, byes the first bracket_size - N seeds,
\* matches[i] = (rest[i], rest[len(rest)-1-i]) over the other seeds, and every other
\* seed in exactly one match.
C5_SeededBracket ==
    (tournament_step # "setup" /\ IsDistinct(initial_players)) =>
        LET n == Len(initial_players)
            rest == SubSeq(initial_players, bracket_size - n + 1, n)
        IN  /\ IsPowerOfTwo(bracket_size)
            /\ bracket_size >= n
            /\ bracket_size < 2 * n
            /\ byes = SubSeq(initial_players, 1, bracket_size - n)
            /\ 2 * Len(matches) = Len(rest)
            /\ \A i \in DOMAIN matches :
                   matches[i] = <<rest[i], rest[Len(rest) + 1 - i]>>
            /\ \A p \in Range(rest) :
                   Cardinality({<<i, j>> \in (DOMAIN matches) \X {1, 2} :
                                   matches[i][j] = p}) = 1

\* Scenario A: five seeds give bracket size 8, byes P1 P2 P3 and the match (P4, P5)
C5_Witness ==
    /\ tournament_step = "playing"
    /\ initial_players = <<1, 2, 3, 4, 5>>
    /\ bracket_size = 8
    /\ byes = <<1, 2, 3>>
    /\ matches = <<<<4, 5>>>>

\* C7: a tournament is never started from a roster that names a participant twice.
C7_NoDuplicateRoster ==
    tournament_step # "setup" => IsDistinct(initial_players)

\* C9: for a roster of different players, the next round's list is written, or the
\* tournament becomes finished, only when every pair of the current round has a
\* recorded winner.
C9_CompleteOnlyWhenDecided ==
    [][(/\ IsDistinct(initial_players)
        /\ tournament_step = "playing"
        /\ (RoundAdvances \/ tournament_step' = "finished"))
          => \A i \in DOMAIN CurrentPairs :
                 ~Undecided(CurrentPairs[i], Get(winners', Len(current_round_players)))]_vars

\* the participants of a history record that got the outcome
WithOutcome(rec, outcome) ==
    {i \in DOMAIN rec.participants : rec.participants[i].outcome = outcome}

\* C6: a settled tournament of N = 2^k different players (2 <= N <= 32) has exactly
\* one champion and one finalist, exactly S/2 participants in the tier of every round
\* size S in {4, 8, ..., N}, and equal points for equal tiers; settled once, the
\* ranking of each participant is the points of its tier.
C6_TierCounts ==
    \A h \in DOMAIN history :
        LET rec == history[h]
            n == Len(rec.participants)
        IN  (/\ IsDistinct([i \in 1..n |-> rec.participants[i].name])
             /\ IsPowerOfTwo(n) /\ n >= 2 /\ n <= 32)
            => /\ rec.draw_size = n
               /\ Cardinality(WithOutcome(rec, "winner")) = 1
               /\ Cardinality(WithOutcome(rec, "finalist")) = 1
               /\ \A size \in {4, 8, 16, 32} :
                      size <= n =>
                          2 * Cardinality(WithOutcome(rec, round_outcomes[size])) = size
               /\ \A i, j \in 1..n :
                      rec.participants[i].outcome = rec.participants[j].outcome
                          => rec.participants[i].points_earned
                                 = rec.participants[j].points_earned
               /\ (Len(history) = 1 =>
                      \A i \in 1..n :
                          rankings[rec.participants[i].name]
                              = rec.participants[i].points_earned)

\* eight players settled: four quarterfinalists, two semifinalists
C6_Witness ==
    /\ Len(history) = 1
    /\ history[1].draw_size = 8
    /\ Cardinality(WithOutcome(history[1], "quarterfinalist")) = 4
    /\ Cardinality(WithOutcome(history[1], "semifinalist")) = 2
    /\ rankings[history[1].participants[1].name] = 200

\* ladder sizes whose ladder has a quarterfinalist tier
HasQuarterfinal(size) ==
    size \in DOMAIN POINTS_STRUCTURE /\ "quarterfinalist" \in DOMAIN POINTS_STRUCTURE[size]

\* C8 as stated: a quarterfinalist of a configured bracket b never gets more points
\* than a finalist of a configured bracket b' <= b.
C8_QuarterVsFinalist ==
    \A i, j \in DOMAIN lookups :
        (/\ lookups[i].outcome = "quarterfinalist"
         /\ HasQuarterfinal(lookups[i].draw_size)
         /\ lookups[j].outcome = "finalist"
         /\ lookups[j].draw_size \in DOMAIN POINTS_STRUCTURE
         /\ lookups[j].draw_size <= lookups[i].draw_size)
        => lookups[i].points_earned <= lookups[j].points_earned

\* C8 amended: a quarterfinalist of a configured bracket b never gets more points
\* than a finalist of a configured bracket b' with b/2 <= b' <= b.
C8_QuarterVsFinalistNear ==
    \A i, j \in DOMAIN lookups :
        (/\ lookups[i].outcome = "quarterfinalist"
         /\ HasQuarterfinal(lookups[i].draw_size)
         /\ lookups[j].outcome = "finalist"
         /\ lookups[j].draw_size \in DOMAIN POINTS_STRUCTURE
         /\ lookups[j].draw_size <= lookups[i].draw_size
         /\ 2 * lookups[j].draw_size >= lookups[i].draw_size)
        => lookups[i].points_earned <= lookups[j].points_earned

C8_Witness ==
    /\ Len(lookups) = 2
    /\ lookups[1] = [draw_size |-> 16, outcome |-> "quarterfinalist", points_earned |-> 80]
    /\ lookups[2] = [draw_size |-> 8, outcome |-> "finalist", points_earned |-> 120]

\* C10: for a roster of different players, while the tournament is being played and
\* no rerun is pending, a match is offered: the caller who records a winner for every
\* offered match is never left with every offered match decided and the round open.
C10_NeverStuck ==
    (tournament_step = "playing" /\ ~rerun /\ IsDistinct(initial_players))
        => buttons # {}

\* the tournament is in its first round: only the top-level key is in the round map
FirstRound == tournament_step = "playing" /\ DOMAIN rounds = {bracket_size}

\* C11: in the first round of a roster of different players, no result button names
\* a player with a bye, and every match offered is one of the matches returned by
\* create_seeded_bracket.
C11_ByesDoNotPlay ==
    (FirstRound /\ IsDistinct(initial_players))
        => \A key \in buttons :
              /\ key[1] \notin Range(byes)
              /\ key[2] \notin Range(byes)
              /\ \/ <<key[1], key[2]>> \in Range(matches)
                 \/ <<key[2], key[1]>> \in Range(matches)

\* C12: when a round of different players with every player paired advances, the
\* i-th slot of the next round holds the winner of the i-th match of the round,
\* whatever the order in which the results were recorded.
C12_BracketOrderKept ==
    [][(/\ RoundAdvances
        /\ IsDistinct(initial_players)
        /\ Len(current_round_players) % 2 = 0)
          => /\ Len(current_round_players') = Len(CurrentPairs)
             /\ \A i \in DOMAIN CurrentPairs :
                   current_round_players'[i] \in {CurrentPairs[i][1], CurrentPairs[i][2]}]_vars

\* the powers of two from the size of the active round up to the bracket size
RoundSizesDownTo(size) == {s \in 1..bracket_size : IsPowerOfTwo(s) /\ s >= size}

\* C13: for a roster of different players, the active round starts at the bracket
\* size and is halved by every transition: its size is always a power of two, and
\* the round map holds exactly the sizes bracket_size, bracket_size / 2, ... down
\* to the size of the active round, none skipped.
C13_RoundSizeHalves ==
    (tournament_step # "setup" /\ IsDistinct(initial_players))
        => /\ IsPowerOfTwo(Len(current_round_players))
           /\ DOMAIN rounds = RoundSizesDownTo(Len(current_round_players))

\* C14: every key of the round map maps to a list of exactly that many players,
\* the top-level key included, and key 1 is present only once the champion is known.
C14_RoundMapLengths ==
    /\ \A size \in DOMAIN rounds : Len(rounds[size]) = size
    /\ 1 \in DOMAIN rounds => Len(current_round_players) = 1

\* C14 amended: every key of the round map other than the top-level key maps to a
\* list of exactly that many players; the top-level key is the bracket size and maps
\* to the roster as entered; key 1 is present only once the champion is known.
C14_RoundMapLengthsBelowTop ==
    tournament_step # "setup" =>
        /\ bracket_size \in DOMAIN rounds
        /\ rounds[bracket_size] = initial_players
        /\ \A size \in DOMAIN rounds \ {bracket_size} : Len(rounds[size]) = size
        /\ 1 \in DOMAIN rounds \ {bracket_size} =>
              /\ current_round_players = rounds[1]
              /\ Len(current_round_players) = 1

\* a three-player tournament with its champion known: the top-level key 4 holds the
\* three players
C14_Witness ==
    /\ tournament_step = "finished"
    /\ Len(initial_players) = 3
    /\ DOMAIN rounds = {4, 1}
    /\ Len(rounds[4]) = 3

\* the finished page of the tournament in the session has been drawn: the last
\* record of the history is the settlement of tournament_data
Settled ==
    /\ page = "tournament"
    /\ tournament_step = "finished"
    /\ ~rerun
    /\ history # <<>>

LastRecord == history[Len(history)]

\* the round-size keys of the round map whose list holds the player
KeysHolding(player) == {size \in DOMAIN rounds : player \in Range(rounds[size])}

\* C16: in the record of a settled tournament of different players, the outcome of
\* every participant is the tier of the smallest key of the round map whose list
\* holds the participant, whether or not that key is a power of two.
C16_OutcomeOfSmallestKey ==
    (Settled /\ IsDistinct(initial_players))
        => \A i \in DOMAIN LastRecord.participants :
              LET entry == LastRecord.participants[i]
                  deepest == SetMin(KeysHolding(entry.name))
              IN  /\ deepest \in DOMAIN round_outcomes
                  /\ entry.outcome = round_outcomes[deepest]

\* the players of the round of the given size: the first round is the byes followed
\* by the match players, every later round is its list in the round map
RoundPlayers(size) ==
    IF size = Len(initial_players) THEN byes \o FlattenMatches(matches)
    ELSE Get(rounds, size)

\* the number of rounds in which the player was paired and recorded as the winner
MatchesWon(player) ==
    Cardinality({size \in DOMAIN winners :
                    /\ player \in Range(winners[size])
                    /\ \E m \in Range(PairsOf(RoundPlayers(size))) :
                          player \in {m[1], m[2]}})

\* C17: in the record of a settled tournament of different players, the wins of a
\* participant is the number of keys of the round map below the bracket size whose
\* list holds the participant, and it never exceeds the number of matches in which
\* the participant was recorded as the winner: advancing without a match counts
\* no win.
C17_WinsAreMatchesWon ==
    (Settled /\ IsDistinct(initial_players))
        => \A i \in DOMAIN LastRecord.participants :
              LET entry == LastRecord.participants[i]
              IN  /\ entry.wins
                        = Cardinality({size \in KeysHolding(entry.name) :
                                          size < bracket_size})
                  /\ entry.wins <= MatchesWon(entry.name)

\* the configured bracket sizes nearest to the given size
NearestConfigured(size) ==
    {k \in {4, 8, 16, 32} : \A j \in {4, 8, 16, 32} : Abs(k - size) <= Abs(j - size)}

\* C18: the points of an outcome in a bracket of a given size are the POINTS_STRUCTURE
\* value of the tier in the ladder of the configured size nearest to the bracket size,
\* and 0 when the outcome is participation or that ladder has no such tier: a bracket
\* of 2 is paid by the 4-draw ladder, a bracket of 64 by the 32-draw ladder.
C18_NearestLadder ==
    \A i \in DOMAIN lookups :
        LET size == lookups[i].draw_size
            tier == lookups[i].outcome
            points == lookups[i].points_earned
        IN  /\ \E k \in NearestConfigured(size) :
                  points = IF tier \in DOMAIN POINTS_STRUCTURE[k]
                           THEN POINTS_STRUCTURE[k][tier] ELSE 0
            /\ tier = "participation" => points = 0
            /\ size = 2 => points = (CASE tier = "winner" -> 100
                                       [] tier = "finalist" -> 60
                                       [] tier = "semifinalist" -> 30
                                       [] OTHER -> 0)
            /\ size = 64 => points = (CASE tier = "winner" -> 800
                                        [] tier = "finalist" -> 480
                                        [] tier = "semifinalist" -> 280
                                        [] tier = "quarterfinalist" -> 160
                                        [] tier = "round_of_16" -> 80
                                        [] tier = "round_of_32" -> 40
                                        [] OTHER -> 0)

\* the finalist of a bracket of 2 and a first-round loser of a bracket of 64
C18_Witness ==
    /\ Len(lookups) = 2
    /\ lookups[1] = [draw_size |-> 2, outcome |-> "finalist", points_earned |-> 60]
    /\ lookups[2] = [draw_size |-> 64, outcome |-> "participation", points_earned |-> 0]

\* C19: for a roster of different players, a run of the playing step without a click
\* on a result button, made while no rerun is pending, leaves the recorded winners,
\* the round map and current_round_players unchanged, also in a round with an odd
\* number of players.
C19_IdleRunChangesNothing ==
    [][(/\ SetPage("tournament")
        /\ tournament_step = "playing"
        /\ ~rerun
        /\ IsDistinct(initial_players))
          => UNCHANGED <<winners, rounds, current_round_players>>]_vars

\* the stored ranking of a player, 0 for a player the file does not hold
RankingOf(player) == IF player \in DOMAIN rankings THEN rankings[player] ELSE 0

\* the points the tournament of a session pays to a player
EarnedIn(player, data) ==
    IF player \in Range(data.initial_players)
    THEN ParticipantEntry(player, data.rounds, data.bracket_size).points_earned
    ELSE 0

BothSettled == \A s \in Sessions : settlers[s].pc = "done"

\* C15: when two sessions have settled two tournaments at the same time, starting
\* from empty files, the stored ranking of every player is the points the player
\* earned in both tournaments and the stored history holds both records, whatever
\* the interleaving of the sessions' loads and saves.
C15_NoLostUpdate ==
    (settlers # <<>> /\ BothSettled)
        => /\ \A player \in Names :
                 RankingOf(player) = EarnedIn(player, settlers[1].data)
                                     + EarnedIn(player, settlers[2].data)
           /\ Len(history) = 2
           /\ \A s \in Sessions :
                 TournamentRecord(settlers[s].data.initial_players,
                                  settlers[s].data.rounds,
                                  settlers[s].data.bracket_size) \in Range(history)
====
